---- MODULE Spec2Model ----
(***************************************************************************)
(* Model of ModelBase (src/model_base.py): the epoch/minibatch training    *)
(* loop, the checkpoint naming and resume scheme and the log accumulation. *)
(*                                                                         *)
(* The trainable model and the data loader are external collaborators.     *)
(* Their answers (metric vectors, epoch size) are inputs drawn from small  *)
(* sets; model parameters are tokens that record where they come from.     *)
(* Metric values are whole numbers; a value written to the log with %.3f   *)
(* is kept as its number of thousandths.                                   *)
(***************************************************************************)
EXTENDS Integers, Sequences, FiniteSets, TLC

\* ------------------------------------------------------------------ bounds
MaxEpochs == 2      \* num_epochs ranges over 0..MaxEpochs, load's epoch_num too
MaxEpochSize == 2   \* loader.get_epoch_size() ranges over 0..MaxEpochSize
MaxMbSize == 2      \* mb_size ranges over 1..MaxMbSize
MaxTestFreq == 2    \* test_freq ranges over 1..MaxTestFreq
MaxMetrics == 1     \* len(self._metrics) ranges over 0..MaxMetrics
MaxCalls == 2       \* public calls (load, train) made on one harness under SpecResume

\* ------------------------------------------------------------ input domains
AllNames == <<"loss", "acc", "mae", "mse">>
MetricVals == {1, 2}
Dirs == {"weights", "ckpt"}
ModelName == "net"

VARIABLES
    \* harness fields
    epoch,          \* self._epoch
    metricNames,    \* self._metrics
    weights,        \* parameters held by self._model
    epochSize,      \* self._loader.get_epoch_size()
    \* file system and console
    dirs,           \* existing directories
    files,          \* checkpoint files: path -> stored parameters
    logFile,        \* [exists, text] of self._log_fname
    out,            \* paths reported missing by load
    \* position and outcome of the running call
    pc, err,
    \* locals of train()
    start, numEpochs, mbSize, testFreq, saveDir, mbPerEpoch,
    iter, mb, totalAvgs, testingAvgs, numTests, metrics, logText,
    \* history
    callsLeft,      \* public calls the caller still makes
    op,             \* the last public call: "none", "load" or "train"
    lastLoad,       \* arguments and load_weights calls of the last load
    prev,           \* the public call before the last one, and how it ended
    logAtEntry,     \* log file as the last call found it
    filesAtEntry,   \* checkpoint files as the last call found them
    weightsAtEntry, \* model parameters as the last call found them
    begun,          \* epochs the running train() has entered, in order
    steps,          \* model steps of the running epoch, in order
    saved,          \* checkpoint paths written by the running train(), in order
    logged          \* epochs whose block the running train() wrote to the log file

fields == <<epoch, metricNames, weights, epochSize>>
fsys == <<dirs, files, logFile, out>>
locals == <<start, numEpochs, mbSize, testFreq, saveDir, mbPerEpoch,
            iter, mb, totalAvgs, testingAvgs, numTests, metrics, logText>>
hist == <<callsLeft, op, lastLoad, prev, logAtEntry, filesAtEntry,
          weightsAtEntry, begun, steps, saved, logged>>
vars == <<fields, fsys, pc, err, locals, hist>>

\* ------------------------------------------------------------ pure helpers
Min(a, b) == IF a < b THEN a ELSE b

\* '%s_%d.hdf5' % (name, epoch) joined to the directory
CkptPathNext(dir, nm, e) == [dir |-> dir, name |-> nm, epoch |-> e + 1]
CkptPath(dir, nm, e) == [dir |-> dir, name |-> nm, epoch |-> e]

\* load(): the epoch counter after the call
ResumeEpochSame(k) == k
ResumeEpoch(k) == k + 1

\* get_epoch_size() // mb_size
MbPerEpochCeil(size, mbs) == (size + mbs - 1) \div mbs
MbPerEpoch(size, mbs) == size \div mbs

\* mb % test_freq == 0
TestDueLate(i, tf) == (i + 1) % tf = 0
TestDue(i, tf) == i % tf = 0

\* acc[i] += vec[i] for i in range(n); stops at the first missing entry
AddVecAssign(acc, vec) ==
    [i \in DOMAIN acc |-> IF i <= Len(vec) THEN vec[i] ELSE acc[i]]
AddVec(acc, vec) ==
    [i \in DOMAIN acc |-> IF i <= Len(vec) THEN acc[i] + vec[i] ELSE acc[i]]

\* num / den is the double nearest to the quotient and '%.3f' rounds that
\* double, a tie to the even thousandth. Only a quotient that is an odd number
\* of half thousandths can land on the other side of the nearest thousandth:
\* there the side on which the double lies decides.
RECURSIVE Gcd(_, _)
Gcd(a, b) == IF b = 0 THEN a ELSE Gcd(b, a % b)

\* the binary exponent of p / q: 2^e <= p / q < 2^(e + 1)   (p, q > 0)
RECURSIVE Exp2(_, _)
Exp2(p, q) ==
    IF p >= 2 * q THEN 1 + Exp2(p, 2 * q)
    ELSE IF p < q THEN Exp2(2 * p, q) - 1
    ELSE 0

\* 2^e mod q
RECURSIVE Pow2Mod(_, _)
Pow2Mod(e, q) == IF e = 0 THEN 1 % q ELSE (2 * Pow2Mod(e - 1, q)) % q

\* what is cut off when p / q is rounded to the 53 bits of a double, in q-ths
\* of the last bit: 0 when the double is exact, below q / 2 when the double
\* lies below the quotient, above q / 2 when it lies above
DoubleRest(p, q) == ((p % q) * Pow2Mod(52 - Exp2(p, q), q)) % q

\* '%.3f' % (num / den), as thousandths (num >= 0, den > 0)
Fmt3(num, den) ==
    LET t == 2000 * num
    IN  IF t % den # 0 \/ (t \div den) % 2 = 0
        THEN (t + den) \div (2 * den)
        ELSE LET lo == ((t \div den) - 1) \div 2
                 g == Gcd(num, den)
                 r == DoubleRest(num \div g, den \div g)
             IN  IF r = 0 THEN (IF lo % 2 = 0 THEN lo ELSE lo + 1)
                 ELSE IF 2 * r < den \div g THEN lo
                 ELSE lo + 1

\* [0.0] * n
Zeros(n) == [i \in 1..n |-> 0]

\* lines of the log text
Line(kind, nm, val) == [kind |-> kind, name |-> nm, val |-> val]
Header(e) == <<Line("blank", "", 0), Line("Epoch", "", e)>>
MetricLines(nm, tot, tst, mpe, nt) ==
    <<Line("Train", nm, Fmt3(tot, mpe)), Line("Test", nm, Fmt3(tst, nt))>>

\* model parameters
InitWeights == [src |-> "init", dir |-> "", epoch |-> 0]
OldWeights(p) == [src |-> "old", dir |-> p.dir, epoch |-> p.epoch]
Trained(e) == [src |-> "trained", dir |-> "", epoch |-> e]

\* save_weights(path): the file system afterwards
StoreSkipped(fs, path, w) == fs
Store(fs, path, w) ==
    [p \in DOMAIN fs \cup {path} |-> IF p = path THEN w ELSE fs[p]]

\* lines 59-68: the log file and log_file after the setup
LogSetupKeep(lf, ep) == lf
LogSetup(lf, ep) ==
    IF lf.exists /\ ep = 1 THEN [exists |-> TRUE, text |-> <<>>] ELSE lf

\* line 128: range(len(metrics)), the number of metrics the block is written for
BlockLenNames(vec, n) == n
BlockLen(vec, n) == Len(vec)

\* range(start, num_epochs + 1)
EpochRangeShort(s, n) == s..(n - 1)
EpochRange(s, n) == s..n

\* ------------------------------------------------------------ input sets
NameLists == {SubSeq(AllNames, 1, n) : n \in 0..MaxMetrics}
Ones(n) == [i \in 1..n |-> 1]
\* metric vectors a step may return: every vector of the right length, one
\* that is one entry short and one that is one entry long
WellFormed(n) == [1..n -> MetricVals]
Vectors(n) ==
    WellFormed(n) \cup {Ones(n + 1)} \cup (IF n > 0 THEN {Ones(n - 1)} ELSE {})
Unbound == [bound |-> FALSE, vec |-> <<>>]
OldLog == <<Line("blank", "", 0), Line("Epoch", "", 1),
            Line("Train", "loss", 1000), Line("Test", "loss", 1000)>>
NoFile == [exists |-> FALSE, text |-> <<>>]
NoLoad == [k |-> 0, dir |-> "", loaded |-> <<>>]
NoCall == [op |-> "none", n |-> 0, normal |-> FALSE, epochs |-> 0]

\* a harness with no train() frame
NoFrame ==
    /\ start = 0 /\ numEpochs = 0 /\ mbSize = 1 /\ testFreq = 1
    /\ saveDir = "" /\ mbPerEpoch = 0 /\ iter = 0 /\ mb = 0
    /\ totalAvgs = <<>> /\ testingAvgs = <<>> /\ numTests = 0
    /\ metrics = Unbound /\ logText = <<>>
    /\ begun = <<>> /\ steps = <<>> /\ saved = <<>> /\ logged = <<>>

\* ------------------------------------------------------------------- Init
\* __init__ (lines 11-23) on a file system that may hold an earlier run
Constructed ==
    /\ epoch = 1
    /\ metricNames \in NameLists
    /\ weights = InitWeights
    /\ epochSize \in 0..MaxEpochSize
    /\ \E old \in SUBSET {[dir |-> "weights", name |-> ModelName, epoch |-> 1]} :
          /\ files = [p \in old |-> OldWeights(p)]
          /\ dirs = {p.dir : p \in old}
    /\ logFile \in {NoFile, [exists |-> TRUE, text |-> OldLog]}
    /\ out = {}
    /\ pc = "idle" /\ err = "none"
    /\ NoFrame
    /\ op = "none" /\ lastLoad = NoLoad /\ prev = NoCall
    /\ logAtEntry = logFile /\ filesAtEntry = files /\ weightsAtEntry = weights

\* one public call on the new harness
Init == Constructed /\ callsLeft = 1

\* up to MaxCalls public calls on the new harness
InitResume == Constructed /\ callsLeft = MaxCalls

\* the last call and how it ended, as the next call finds it
Ended ==
    [op |-> op,
     n |-> IF op = "train" THEN numEpochs ELSE lastLoad.k,
     normal |-> (pc = "idle"),
     epochs |-> Len(logged)]

\* ------------------------------------------------------------------- load
\* lines 37-49
Load(k, dir) ==
    /\ pc \in {"idle", "aborted"}
    /\ callsLeft > 0
    /\ LET fname == CkptPath(dir, ModelName, k)
           found == fname \in DOMAIN files
       IN  /\ dirs' = dirs \cup {dir}
           /\ weights' = IF found THEN files[fname] ELSE weights
           /\ out' = IF found THEN out ELSE out \cup {fname}
           /\ lastLoad' = [k |-> k, dir |-> dir,
                           loaded |-> IF found THEN <<fname>> ELSE <<>>]
    /\ epoch' = ResumeEpoch(k)
    /\ pc' = "idle" /\ err' = "none"
    /\ callsLeft' = callsLeft - 1 /\ op' = "load" /\ prev' = Ended
    /\ start' = 0 /\ numEpochs' = 0 /\ mbSize' = 1 /\ testFreq' = 1
    /\ saveDir' = "" /\ mbPerEpoch' = 0 /\ iter' = 0 /\ mb' = 0
    /\ totalAvgs' = <<>> /\ testingAvgs' = <<>> /\ numTests' = 0
    /\ metrics' = Unbound /\ logText' = <<>>
    /\ begun' = <<>> /\ steps' = <<>> /\ saved' = <<>> /\ logged' = <<>>
    /\ logAtEntry' = logFile /\ filesAtEntry' = files /\ weightsAtEntry' = weights
    /\ UNCHANGED <<metricNames, epochSize, files, logFile>>

\* ------------------------------------------------------------------ train
\* lines 52-68: entry, minibatches per epoch, log file setup
TrainCall(n, mbs, tf, dir) ==
    /\ pc \in {"idle", "aborted"}
    /\ callsLeft > 0
    /\ start' = epoch /\ iter' = epoch
    /\ numEpochs' = n /\ mbSize' = mbs /\ testFreq' = tf /\ saveDir' = dir
    /\ mbPerEpoch' = MbPerEpoch(epochSize, mbs)
    /\ logFile' = LogSetup(logFile, epoch)
    /\ logText' = logFile'.text
    /\ metrics' = Unbound
    /\ mb' = 0 /\ totalAvgs' = <<>> /\ testingAvgs' = <<>> /\ numTests' = 0
    /\ pc' = "loop" /\ err' = "none"
    /\ callsLeft' = callsLeft - 1 /\ op' = "train" /\ prev' = Ended
    /\ logAtEntry' = logFile /\ filesAtEntry' = files /\ weightsAtEntry' = weights
    /\ begun' = <<>> /\ steps' = <<>> /\ saved' = <<>> /\ logged' = <<>>
    /\ UNCHANGED <<fields, dirs, files, out, lastLoad>>

\* lines 72-84: the loop takes its next epoch
EpochBegin ==
    /\ pc = "loop"
    /\ iter \in EpochRange(start, numEpochs)
    /\ epoch' = iter
    /\ totalAvgs' = Zeros(Len(metricNames))
    /\ testingAvgs' = Zeros(Len(metricNames))
    /\ numTests' = 0
    /\ mb' = 0
    /\ steps' = <<>>
    /\ begun' = Append(begun, iter)
    /\ pc' = "mb"
    /\ UNCHANGED <<metricNames, weights, epochSize, fsys, err,
                   start, numEpochs, mbSize, testFreq, saveDir, mbPerEpoch,
                   iter, metrics, logText,
                   callsLeft, op, lastLoad, prev, logAtEntry, filesAtEntry,
                   weightsAtEntry, saved, logged>>

\* line 72: the range is exhausted, train() returns
TrainReturn ==
    /\ pc = "loop"
    /\ iter \notin EpochRange(start, numEpochs)
    /\ pc' = "idle"
    /\ UNCHANGED <<fields, fsys, err, locals, hist>>

\* lines 87-110: one minibatch; m and t are the vectors the training and the
\* evaluation step return
Minibatch(m, t) ==
    /\ pc = "mb"
    /\ mb < mbPerEpoch
    /\ LET n == Len(metricNames)
           due == TestDue(mb, testFreq)
           testFails == due /\ Len(t) < n
           trainFails == Len(m) < n
       IN  /\ weights' = Trained(epoch)
           /\ metrics' = [bound |-> TRUE, vec |-> m]
           /\ steps' = steps
                  \o <<[kind |-> "train", mb |-> mb, vec |-> m]>>
                  \o (IF due THEN <<[kind |-> "test", mb |-> mb, vec |-> t]>>
                      ELSE <<>>)
           /\ numTests' = IF due THEN numTests + 1 ELSE numTests
           /\ testingAvgs' = IF due THEN AddVec(testingAvgs, t) ELSE testingAvgs
           /\ totalAvgs' = IF testFails THEN totalAvgs ELSE AddVec(totalAvgs, m)
           /\ IF testFails \/ trainFails
              THEN pc' = "aborted" /\ err' = "IndexError" /\ mb' = mb
              ELSE pc' = "mb" /\ err' = err /\ mb' = mb + 1
    /\ UNCHANGED <<epoch, metricNames, epochSize, fsys,
                   start, numEpochs, mbSize, testFreq, saveDir, mbPerEpoch,
                   iter, logText,
                   callsLeft, op, lastLoad, prev, logAtEntry, filesAtEntry,
                   weightsAtEntry, begun, saved, logged>>

\* lines 113-124: print the testing metrics, save the weights
SaveWeights ==
    /\ pc = "mb"
    /\ mb >= mbPerEpoch
    /\ IF Len(testingAvgs) > 0 /\ Len(metricNames) > 0 /\ numTests = 0
       THEN /\ pc' = "aborted" /\ err' = "ZeroDivisionError"
            /\ UNCHANGED <<dirs, files, saved>>
       ELSE /\ dirs' = dirs \cup {saveDir}
            /\ files' = Store(files, CkptPath(saveDir, ModelName, iter), weights)
            /\ saved' = Append(saved, CkptPath(saveDir, ModelName, iter))
            /\ pc' = "log" /\ err' = err
    /\ UNCHANGED <<fields, logFile, out, locals,
                   callsLeft, op, lastLoad, prev, logAtEntry, filesAtEntry,
                   weightsAtEntry, begun, steps, logged>>

\* the metric lines of the block for the first cnt metrics
RECURSIVE Block(_)
Block(cnt) ==
    IF cnt = 0 THEN <<>>
    ELSE Block(cnt - 1)
         \o MetricLines(metricNames[cnt], totalAvgs[cnt], testingAvgs[cnt],
                        mbPerEpoch, numTests)

\* lines 126-133: extend log_file by the epoch's block, rewrite the log file
WriteLog ==
    /\ pc = "log"
    /\ LET n == Len(metricNames)
           want == BlockLen(metrics.vec, n)
           cnt == Min(want, n)
           divZero == cnt > 0 /\ (mbPerEpoch = 0 \/ numTests = 0)
       IN  IF ~metrics.bound
           THEN /\ logText' = logText \o Header(iter)
                /\ pc' = "aborted" /\ err' = "UnboundLocalError"
                /\ UNCHANGED <<logFile, iter, logged>>
           ELSE IF divZero
           THEN /\ logText' = logText \o Header(iter)
                /\ pc' = "aborted" /\ err' = "ZeroDivisionError"
                /\ UNCHANGED <<logFile, iter, logged>>
           ELSE IF want > n
           THEN /\ logText' = logText \o Header(iter) \o Block(cnt)
                /\ pc' = "aborted" /\ err' = "IndexError"
                /\ UNCHANGED <<logFile, iter, logged>>
           ELSE /\ logText' = logText \o Header(iter) \o Block(cnt)
                /\ logFile' = [exists |-> TRUE, text |-> logText']
                /\ logged' = Append(logged, iter)
                /\ iter' = iter + 1
                /\ pc' = "loop" /\ err' = err
    /\ UNCHANGED <<fields, dirs, files, out,
                   start, numEpochs, mbSize, testFreq, saveDir, mbPerEpoch,
                   mb, totalAvgs, testingAvgs, numTests, metrics,
                   callsLeft, op, lastLoad, prev, logAtEntry, filesAtEntry,
                   weightsAtEntry, begun, steps, saved>>

\* ------------------------------------------------------------------- Next
\* the public calls
Call ==
    \/ \E k \in 0..MaxEpochs, d \in Dirs : Load(k, d)
    \/ \E n \in 0..MaxEpochs, mbs \in 1..MaxMbSize, tf \in 1..MaxTestFreq,
          d \in Dirs : TrainCall(n, mbs, tf, d)

\* the steps of train() around the minibatches
Epoch ==
    \/ EpochBegin
    \/ TrainReturn
    \/ SaveWeights
    \/ WriteLog

\* a minibatch whose steps return vectors from vs
Steps(vs) ==
    \E m \in vs :
       \E t \in IF TestDue(mb, testFreq) THEN vs ELSE {<<>>} : Minibatch(m, t)

\* one call; the model's steps may return malformed vectors
Next ==
    \/ Call
    \/ Epoch
    \/ Steps(Vectors(Len(metricNames)))

Spec == Init /\ [][Next]_vars

\* several calls; the model's steps return well-formed vectors
NextResume ==
    \/ Call
    \/ Epoch
    \/ Steps(WellFormed(Len(metricNames)))

SpecResume == InitResume /\ [][NextResume]_vars

\* ============================================================== properties
\* what the formulas below read off the history
Path(dir, e) == [dir |-> dir, name |-> ModelName, epoch |-> e]
NumMetrics == Len(metricNames)
InTrain == op = "train"
Returned == InTrain /\ pc = "idle"
EpochDone == InTrain /\ pc \in {"loop", "idle"} /\ logged # <<>>
AfterLoad == InTrain /\ prev.op = "load"
StepIdx(kind) == {j \in 1..Len(steps) : steps[j].kind = kind}

\* the sum of the i-th entries of the vectors of the first cnt steps of a kind
RECURSIVE SumOf(_, _, _)
SumOf(kind, i, cnt) ==
    IF cnt = 0 THEN 0
    ELSE SumOf(kind, i, cnt - 1)
         + (IF steps[cnt].kind = kind THEN steps[cnt].vec[i] ELSE 0)

\* the epoch numbers of the header lines of a text, in order
RECURSIVE EpochsIn(_)
EpochsIn(text) ==
    IF text = <<>> THEN <<>>
    ELSE (IF Head(text).kind = "Epoch" THEN <<Head(text).val>> ELSE <<>>)
         \o EpochsIn(Tail(text))

\* the last cnt lines of a text
LastLines(text, cnt) == SubSeq(text, Len(text) - cnt + 1, Len(text))

\* --------------------------------------------------------------------- C1
\* C1: after load(k) the epoch counter is k + 1 whether or not the checkpoint
\* file existed, and a train(N) that follows with N >= k + 1 starts at epoch
\* k + 1: that is the first epoch it enters and the first checkpoint it writes.
C1_ResumeAtNext ==
    /\ op = "load" => epoch = lastLoad.k + 1
    /\ (AfterLoad /\ numEpochs >= lastLoad.k + 1) =>
          /\ start = lastLoad.k + 1
          /\ pc = "loop" /\ begun = <<>> => iter = lastLoad.k + 1
          /\ pc # "loop" => begun # <<>>
          /\ begun # <<>> => begun[1] = lastLoad.k + 1
          /\ saved # <<>> => saved[1] = Path(saveDir, lastLoad.k + 1)

\* a train() after a load() that found no file has written its first checkpoint
C1_Witness ==
    /\ AfterLoad /\ lastLoad.loaded = <<>> /\ lastLoad.k >= 1
    /\ saved # <<>>

\* --------------------------------------------------------------------- C2
\* C2: a train(N) entered with counter start <= N that returns has written
\* exactly the checkpoints of the epochs start..N, in that order, each at the
\* path of (save_dir, name, epoch), and has touched no other checkpoint file.
C2_Checkpoints ==
    (Returned /\ start <= numEpochs) =>
        /\ saved = [j \in 1..(numEpochs - start + 1) |-> Path(saveDir, start + j - 1)]
        /\ DOMAIN files = DOMAIN filesAtEntry \cup {saved[j] : j \in DOMAIN saved}
        /\ \A p \in DOMAIN filesAtEntry :
              p \notin {saved[j] : j \in DOMAIN saved} => files[p] = filesAtEntry[p]

\* a train() that followed a load() has run two epochs and has returned
C2_Witness ==
    /\ Returned /\ Len(saved) = 2 /\ prev.op = "load"

\* --------------------------------------------------------------------- C3
\* C3: once train() has completed epoch e the epoch counter is e + 1; after
\* train(N) has returned from running epochs up to N it is N + 1, and a
\* train(N) repeated at once enters no epoch, writes no checkpoint and no log.
C3_CounterAdvances ==
    /\ EpochDone => epoch = logged[Len(logged)] + 1
    /\ (Returned /\ logged # <<>>) => epoch = numEpochs + 1
    /\ (InTrain /\ prev.op = "train" /\ prev.normal /\ prev.epochs > 0
           /\ prev.n = numEpochs) =>
          begun = <<>> /\ saved = <<>> /\ logFile = logAtEntry

\* --------------------------------------------------------------------- C4
\* the block of the epoch just completed, as the claims state it: the header,
\* then per metric the training mean over the minibatches and the testing mean
\* over the tests, both taken from the steps the model performed
RECURSIVE StatedLines(_)
StatedLines(cnt) ==
    IF cnt = 0 THEN <<>>
    ELSE StatedLines(cnt - 1)
         \o <<Line("Train", metricNames[cnt],
                   Fmt3(SumOf("train", cnt, Len(steps)), epochSize \div mbSize)),
              Line("Test", metricNames[cnt],
                   Fmt3(SumOf("test", cnt, Len(steps)),
                        Cardinality(StepIdx("test"))))>>
StatedBlock == Header(logged[Len(logged)]) \o StatedLines(NumMetrics)

\* the text the log file must start with during a train(): nothing when the
\* call was entered at epoch 1, else what the file held at entry
KeptText == IF start = 1 THEN <<>> ELSE logAtEntry.text

\* C4: a train() entered at epoch counter 1 discards the log file's content,
\* and after its first epoch the file holds exactly that epoch's block; a
\* train() entered at a counter above 1 keeps the content found at entry as a
\* prefix, followed by one block per completed epoch, in epoch order.
C4_LogAccumulation ==
    InTrain =>
        LET kept == Len(KeptText)
            text == logFile.text
        IN  /\ Len(text) >= kept
            /\ SubSeq(text, 1, kept) = KeptText
            /\ EpochsIn(SubSeq(text, kept + 1, Len(text))) = logged
            /\ logged = [j \in 1..Len(logged) |-> start + j - 1]
            /\ logged = <<>> => logFile.exists = logAtEntry.exists
            /\ logged # <<>> => logFile.exists
            /\ (EpochDone /\ start = 1 /\ Len(logged) = 1) => text = StatedBlock

\* a train() resumed above epoch 1 on a log file with content has added a block
C4_Witness ==
    /\ InTrain /\ start > 1 /\ logAtEntry.exists /\ logAtEntry.text # <<>>
    /\ logged # <<>>

\* --------------------------------------------------------------------- C5
\* C5: for every completed epoch and metric i the training value of the block
\* written to the log is the sum of the i-th entries of the vectors of that
\* epoch's training steps over floor(epoch size / minibatch size), the number
\* of those steps; nothing of an earlier epoch enters the sum.
C5_TrainAverage ==
    EpochDone =>
        LET block == LastLines(logFile.text, 2 + 2 * NumMetrics)
        IN  /\ Len(logFile.text) >= 2 + 2 * NumMetrics
            /\ Cardinality(StepIdx("train")) = epochSize \div mbSize
            /\ \A i \in 1..NumMetrics :
                  block[2 * i + 1] =
                      Line("Train", metricNames[i],
                           Fmt3(SumOf("train", i, Len(steps)), epochSize \div mbSize))

\* the second epoch of a call is logged with a training mean of 1.500
C5_Witness ==
    /\ EpochDone /\ Len(logged) = 2 /\ NumMetrics = 1
    /\ SumOf("train", 1, Len(steps)) = 3 /\ epochSize \div mbSize = 2

\* --------------------------------------------------------------------- C6
\* C6: in every epoch the training steps run for the minibatch indices in
\* order, an evaluation step follows the training step of exactly the indices
\* mb with mb % test_frequency = 0, so a completed epoch has
\* ceil(minibatches / test_frequency) tests, and the testing value of its log
\* block is, per metric, the sum over those evaluation steps over that count.
C6_TestAverage ==
    InTrain =>
        /\ \A j \in StepIdx("test") :
              /\ steps[j].mb % testFreq = 0
              /\ j > 1 /\ steps[j - 1].kind = "train" /\ steps[j - 1].mb = steps[j].mb
        /\ \A j \in StepIdx("train") :
              /\ steps[j].mb = Cardinality({h \in StepIdx("train") : h < j})
              /\ steps[j].mb % testFreq = 0 =>
                    /\ j < Len(steps)
                    /\ steps[j + 1].kind = "test"
        /\ EpochDone =>
              LET block == LastLines(logFile.text, 2 + 2 * NumMetrics)
                  tests == Cardinality(StepIdx("test"))
                  mpe == epochSize \div mbSize
              IN  /\ tests = (mpe + testFreq - 1) \div testFreq
                  /\ \A i \in 1..NumMetrics :
                        block[2 * i + 2] =
                            Line("Test", metricNames[i],
                                 Fmt3(SumOf("test", i, Len(steps)), tests))

\* an epoch of two minibatches tested every second one: a single test
C6_Witness ==
    /\ EpochDone /\ NumMetrics = 1 /\ testFreq = 2
    /\ Cardinality(StepIdx("train")) = 2 /\ Cardinality(StepIdx("test")) = 1
    /\ SumOf("test", 1, Len(steps)) = 2

\* --------------------------------------------------------------------- C7
\* C7: load(k, dir) restores the model parameters exactly when the checkpoint
\* file of (name, k) exists in dir, and then from that path; when it is
\* missing the path is reported, the call returns normally and the parameters
\* stay as they were. Either way dir exists afterwards and no checkpoint and
\* no log file is written.
C7_Load ==
    op = "load" =>
        LET p == Path(lastLoad.dir, lastLoad.k)
            there == p \in DOMAIN filesAtEntry
        IN  /\ lastLoad.loaded = IF there THEN <<p>> ELSE <<>>
            /\ weights = IF there THEN filesAtEntry[p] ELSE weightsAtEntry
            /\ there \/ p \in out
            /\ pc = "idle" /\ err = "none"
            /\ lastLoad.dir \in dirs
            /\ files = filesAtEntry
            /\ logFile = logAtEntry

\* a load() that restored parameters a train() call had saved
C7_Witness ==
    /\ op = "load" /\ lastLoad.loaded # <<>>
    /\ weights.src = "trained" /\ weights # weightsAtEntry

\* --------------------------------------------------------------------- C8
ShortSteps == {j \in 1..Len(steps) : Len(steps[j].vec) < NumMetrics}
LongSteps == {j \in 1..Len(steps) : Len(steps[j].vec) > NumMetrics}
\* the last training step of the running epoch returned too long a vector
LastTrainLong ==
    /\ StepIdx("train") # {}
    /\ \E j \in StepIdx("train") :
          /\ \A h \in StepIdx("train") : h <= j
          /\ j \in LongSteps
\* the running epoch has left neither a checkpoint nor a log block
NothingWritten == iter \notin {logged[j] : j \in DOMAIN logged}
                  /\ iter \notin {saved[j].epoch : j \in DOMAIN saved}

\* C8 as stated: once a step of an epoch has returned a vector whose length is
\* not the number of metric names, train() does not complete that epoch: it
\* is still inside it or has aborted with an out-of-range access.
C8_AnyMismatchAborts ==
    (InTrain /\ ShortSteps \cup LongSteps # {}) =>
        /\ pc \in {"mb", "log", "aborted"}
        /\ pc = "aborted" => err = "IndexError"

\* C8 amended: a vector that is too short aborts train() with an out-of-range
\* access in its minibatch, before the epoch's checkpoint and log block. A
\* vector that is too long aborts train() only as the last training step of
\* the epoch, when the log block is built: the checkpoint is saved, the log
\* file is not rewritten. Any other too long vector is read up to the number
\* of metric names and the epoch completes.
C8_MismatchAmended ==
    InTrain =>
        /\ ShortSteps # {} =>
              /\ pc = "aborted" /\ err = "IndexError"
              /\ NothingWritten
              /\ Len(steps[Len(steps)].vec) < NumMetrics
                    \/ (Len(steps) > 1 /\ steps[Len(steps)].kind = "test"
                        /\ Len(steps[Len(steps) - 1].vec) < NumMetrics)
        /\ (ShortSteps = {} /\ LastTrainLong /\ pc \notin {"mb", "log"}) =>
              /\ pc = "aborted" /\ err = "IndexError"
              /\ saved # <<>> /\ saved[Len(saved)] = Path(saveDir, iter)
              /\ iter \notin {logged[j] : j \in DOMAIN logged}
              /\ EpochsIn(logFile.text) = EpochsIn(KeptText) \o logged
        /\ (pc = "aborted" /\ steps # <<>>) =>
              /\ err = "IndexError"
              /\ ShortSteps # {} \/ LastTrainLong
        /\ EpochDone => ShortSteps = {} /\ ~LastTrainLong

\* a too long vector of the last training step: aborted with the checkpoint saved
C8_Witness ==
    /\ InTrain /\ pc = "aborted" /\ err = "IndexError"
    /\ ShortSteps = {} /\ LastTrainLong
    /\ saved # <<>> /\ saved[Len(saved)] = Path(saveDir, iter)

\* --------------------------------------------------------------------- C9
\* train() has an epoch to run and the loader's epoch is smaller than a minibatch
NoMinibatches == InTrain /\ epochSize < mbSize /\ start <= numEpochs

\* C9 as stated: with no minibatch per epoch train() fails in its first epoch
\* with a divide-by-zero, whatever the metric names, the empty list included.
C9_AlwaysDivideByZero ==
    NoMinibatches =>
        /\ pc # "idle"
        /\ begun \in {<<>>, <<start>>}
        /\ pc = "aborted" => err = "ZeroDivisionError"

\* C9 amended: with no minibatch per epoch train() fails in its first epoch and
\* writes no log block. With metric names it fails with a divide-by-zero where
\* the testing metrics are printed, before any checkpoint; with no metric name
\* it saves the epoch's checkpoint and fails where the log block is built, on
\* the metric vector that no training step has assigned.
C9_NoMinibatchesAmended ==
    NoMinibatches =>
        /\ pc # "idle"
        /\ begun \in {<<>>, <<start>>}
        /\ steps = <<>> /\ logged = <<>>
        /\ logFile = LogSetup(logAtEntry, start)
        /\ pc = "aborted" =>
              IF NumMetrics > 0
              THEN err = "ZeroDivisionError" /\ saved = <<>> /\ files = filesAtEntry
              ELSE err = "UnboundLocalError" /\ saved = <<Path(saveDir, start)>>
        /\ NumMetrics > 0 => pc # "log"

\* no metric name, no minibatch: aborted on the unassigned vector
C9_Witness ==
    /\ NoMinibatches /\ pc = "aborted" /\ NumMetrics = 0
    /\ err = "UnboundLocalError" /\ saved # <<>>

\* -------------------------------------------------------------------- C10
\* C10: in a train() call the checkpoint of an epoch is saved before its log
\* block is written, both after all steps of that epoch and before any step of
\* the next, so at every moment, also after an abort, every epoch block the
\* call has written has its checkpoint file.
C10_CheckpointBeforeLog ==
    InTrain =>
        /\ Len(logged) <= Len(saved) /\ Len(saved) <= Len(logged) + 1
        /\ \A j \in DOMAIN logged :
              /\ saved[j] = Path(saveDir, logged[j])
              /\ saved[j] \in DOMAIN files
        /\ (pc = "mb" \/ (pc = "aborted" /\ Len(saved) = Len(logged))) =>
              \A j \in DOMAIN saved : saved[j].epoch < iter
        /\ Len(saved) > Len(logged) =>
              /\ pc \in {"log", "aborted"}
              /\ saved[Len(saved)] = Path(saveDir, iter)
              /\ saved[Len(saved)] \in DOMAIN files
              /\ Cardinality(StepIdx("train")) = mbPerEpoch
        /\ pc \in {"mb", "log", "aborted"} =>
              begun # <<>> /\ begun[Len(begun)] = iter
        /\ (pc = "loop" /\ logged # <<>>) => iter = logged[Len(logged)] + 1

\* aborted in the second epoch after its checkpoint: one block, two checkpoints
C10_Witness ==
    /\ InTrain /\ pc = "aborted"
    /\ Len(logged) = 1 /\ Len(saved) = 2

====
